---- MODULE Spec2Model ----
(***************************************************************************)
(* Scope Shield bot (src/index.js): a webhook handler that maps each       *)
(* (chat, user) pair to an assistant thread, forwards the message text to  *)
(* the assistant and relays the reply to the chat.                         *)
(*                                                                         *)
(* JavaScript runs one callback at a time, so a handler is atomic between  *)
(* two awaits.  Each action below is one such stretch of a handler: it     *)
(* starts when the awaited external call returns (or throws) and runs up   *)
(* to the next await.  pc[h] names the external call handler h is          *)
(* suspended on.  Strings the code inspects character by character         *)
(* (message.text, the thread key) are sequences of one-character strings.  *)
(***************************************************************************)
EXTENDS Integers, Sequences, FiniteSets, TLC

VARIABLES
  proc,       \* the process: [pc, env, kind, read, registered, listening, timer]
  threads,    \* the in-memory map `threads` (index.js:42): key -> thread id
  file,       \* /data/threads.json: [state, content]
  loaded,     \* the map as it was loaded at startup (history variable)
  ctx,        \* assistant backend: ctx[id] = messages of thread id, newest first
  pc,         \* pc[h]: where handler h is suspended
  req,        \* req[h]: the message of the delivery handler h got (req.body.message)
  text,       \* text[h]: the handler's local `text`
  threadId,   \* threadId[h]: runAssistant's local `threadId` (0: not yet set)
  status,     \* status[h]: run.status seen by handler h ("none": no run returned)
  reply,      \* reply[h]: the handler's local `reply`
  delivered,  \* delivered[h]: the messages handler h got delivered to the chat
  acked       \* acked[h]: res.sendStatus(200) was called for this delivery

vars == <<proc, threads, file, loaded, ctx, pc, req, text, threadId, status, reply,
          delivered, acked>>

(***************************************************************************)
(* Bounds of the model.                                                    *)
(***************************************************************************)
\* number of webhook deliveries (handler invocations) in one behaviour
NumHandlers == 2
\* a message text of the text-normalisation specification is made of at most
\* this many pieces
MaxPieces == 3
\* chat ids are drawn from -MaxId..MaxId, user ids from 0..MaxId
MaxId == 11

Handlers == 1..NumHandlers

(***************************************************************************)
(* Program constants.                                                      *)
(***************************************************************************)
\* BOT_USERNAME's default (index.js:16)
BOT_USERNAME == <<"S","c","o","p","e","S","h","i","e","l","d","_","B","o","t">>
\* mentionTag (index.js:127)
MentionTag == <<"@">> \o BOT_USERNAME
\* messages.list limit (index.js:92)
ListLimit == 5
\* the fallback of runAssistant (index.js:101)
NoResponse == "No response generated."
\* the fallback the handler sends (index.js:146)
ErrorReply == "Error processing your request."

(***************************************************************************)
(* String functions of JavaScript, on sequences of characters.             *)
(***************************************************************************)
WhiteSpace == {" ", "\t", "\n"}

RECURSIVE TrimStart(_)
TrimStart(s) ==
  IF s = <<>> THEN s
  ELSE IF Head(s) \in WhiteSpace THEN TrimStart(Tail(s)) ELSE s

RECURSIVE TrimEnd(_)
TrimEnd(s) ==
  IF s = <<>> THEN s
  ELSE IF s[Len(s)] \in WhiteSpace THEN TrimEnd(SubSeq(s, 1, Len(s) - 1)) ELSE s

\* String.prototype.trim
Trim(s) == TrimEnd(TrimStart(s))

\* s.startsWith(t, i) with i counted from 1
StartsAt(s, t, i) ==
  /\ i + Len(t) - 1 <= Len(s)
  /\ SubSeq(s, i, i + Len(t) - 1) = t

\* String.prototype.indexOf, counted from 1; 0 when t does not occur
RECURSIVE IndexFrom(_, _, _)
IndexFrom(s, t, i) ==
  IF i + Len(t) - 1 > Len(s) THEN 0
  ELSE IF StartsAt(s, t, i) THEN i ELSE IndexFrom(s, t, i + 1)

IndexOf(s, t) == IndexFrom(s, t, 1)

\* String.prototype.includes
Includes(s, t) == IndexOf(s, t) # 0

\* a plausible slip: a global replace, which removes every occurrence
RECURSIVE ReplaceAll(_, _, _)
ReplaceAll(s, t, r) ==
  IF IndexOf(s, t) = 0 THEN s
  ELSE SubSeq(s, 1, IndexOf(s, t) - 1) \o r
         \o ReplaceAll(SubSeq(s, IndexOf(s, t) + Len(t), Len(s)), t, r)

\* String.prototype.replace with a string pattern: the first occurrence only
Replace(s, t, r) ==
  IF IndexOf(s, t) = 0 THEN s
  ELSE SubSeq(s, 1, IndexOf(s, t) - 1) \o r
         \o SubSeq(s, IndexOf(s, t) + Len(t), Len(s))

\* the decimal digits of a natural number
Digit(d) == <<"0","1","2","3","4","5","6","7","8","9">>[d + 1]

RECURSIVE NatToStr(_)
NatToStr(n) == IF n < 10 THEN <<Digit(n)>> ELSE NatToStr(n \div 10) \o <<Digit(n % 10)>>

\* `${n}` of an integer
IntToStr(n) == IF n < 0 THEN <<"-">> \o NatToStr(0 - n) ELSE NatToStr(n)

(***************************************************************************)
(* Thread persistence.                                                     *)
(***************************************************************************)
EmptyMap == <<>>

\* a plausible slip: the two ids are joined without the separator
getThreadKeyJoined(chatId, userId) == IntToStr(chatId) \o IntToStr(userId)

\* getThreadKey (index.js:56)
getThreadKey(chatId, userId) == IntToStr(chatId) \o <<":">> \o IntToStr(userId)

\* a plausible slip: the lookup never finds the entry
HasThreadNever(map, key) == FALSE

\* `if (threads[key])` (index.js:63): thread ids are non-empty strings
HasThread(map, key) == key \in DOMAIN map

\* a plausible slip: keep the entry that is already there
StoreIfAbsent(map, key, id) == IF key \in DOMAIN map THEN map ELSE (key :> id) @@ map

\* `threads[key] = thread.id` (index.js:68)
StoreThread(map, key, id) == (key :> id) @@ map

\* JSON.stringify(threads, null, 2) (index.js:53) as the file it makes: the
\* entries of an object; "[]" for an array, whose named properties are left out
Serialize(kind, map) ==
  IF kind = "array" THEN [state |-> "array", content |-> EmptyMap]
  ELSE [state |-> "valid", content |-> map]

\* what a failed fs.writeFileSync (index.js:53) can leave behind: the old
\* file (the open failed) or a truncated one
FailedWrites(old) == { old, [state |-> "partial", content |-> EmptyMap] }

\* the files the process can find at startup: none, one that cannot be read,
\* one that is not JSON, JSON that is no object (null, a number, an array),
\* an object
BootFiles(known) ==
  { [state |-> st, content |-> EmptyMap] :
      st \in {"absent", "unreadable", "partial", "null", "number", "array"} }
  \cup { [state |-> "valid", content |-> m] : m \in {EmptyMap, known} }

\* the type of `threads` after index.js:44-50: JSON.parse throws on what is
\* not JSON only, so null, a number and an array are kept as they are
LoadKind(f) ==
  IF f.state \in {"null", "number", "array"} THEN f.state ELSE "object"

\* the entries of `threads` after index.js:44-50
LoadThreads(f) == IF f.state = "valid" THEN f.content ELSE EmptyMap

(***************************************************************************)
(* Assistant backend.                                                      *)
(***************************************************************************)
TextPart(v) == [type |-> "text", value |-> v]
ImagePart == [type |-> "image_file", value |-> ""]

UserMessage(t) == [role |-> "user", content |-> <<TextPart(t)>>]
AssistantMessage(c) == [role |-> "assistant", content |-> c]

\* the answer the run started by handler h generates
AnswerOf(h) == "answer " \o ToString(h)

\* what a completed run can have added to the thread: an answer, or nothing
CoreOutputs(h) ==
  { <<AssistantMessage(<<TextPart(AnswerOf(h))>>)>>,
    <<>> }

\* ... or an empty text, a message whose first part is not text, a message
\* without content
AllOutputs(h) ==
  CoreOutputs(h) \cup
  { <<AssistantMessage(<<TextPart("")>>)>>,
    <<AssistantMessage(<<ImagePart, TextPart(AnswerOf(h))>>)>>,
    <<AssistantMessage(<<>>)>> }

\* what a thread created before the last restart can hold (newest first)
OldUser == [role |-> "user", content |-> <<TextPart(<<"o", "l", "d">>)>>]
OldAnswer == AssistantMessage(<<TextPart("answer 0")>>)

Histories ==
  { <<>>,
    <<OldAnswer, OldUser>>,
    <<OldUser, OldUser, OldUser, OldAnswer, OldUser>>,
    <<OldUser, OldUser, OldUser, OldUser, OldAnswer, OldUser>> }

\* the terminal statuses of a run other than "completed"
FailedStatuses == {"failed", "expired"}

\* messages.list(threadId, {limit}) (index.js:91): the newest `limit` messages
ListMessages(messages, limit) ==
  SubSeq(messages, 1, IF Len(messages) < limit THEN Len(messages) ELSE limit)

\* messages.data.find(m => m.role === "assistant") (index.js:95): the index
\* of the first such message, 0 when there is none
RECURSIVE FindAssistantFrom(_, _)
FindAssistantFrom(data, i) ==
  IF i > Len(data) THEN 0
  ELSE IF data[i].role = "assistant" THEN i ELSE FindAssistantFrom(data, i + 1)

\* assistantMessage?.content?.[0]?.text?.value (index.js:100); "" stands for
\* undefined, which `||` treats alike
PrimaryText(m) ==
  IF m.content = <<>> THEN ""
  ELSE IF m.content[1].type # "text" THEN "" ELSE m.content[1].value

\* a plausible slip: the text is returned without the `||` fallback
SelectReplyNoFallback(data) ==
  IF FindAssistantFrom(data, 1) = 0 THEN NoResponse
  ELSE PrimaryText(data[FindAssistantFrom(data, 1)])

\* the value runAssistant returns (index.js:95-102)
SelectReply(data) ==
  IF FindAssistantFrom(data, 1) = 0 THEN NoResponse
  ELSE IF PrimaryText(data[FindAssistantFrom(data, 1)]) = "" THEN NoResponse
  ELSE PrimaryText(data[FindAssistantFrom(data, 1)])

(***************************************************************************)
(* Inbound deliveries.                                                     *)
(***************************************************************************)
NoMessage ==
  [hasMessage |-> FALSE, hasText |-> FALSE, text |-> <<>>, hasChat |-> FALSE,
   chatId |-> 0, chatType |-> "none", userId |-> 0, message_id |-> 0]

Message(t, chatId, chatType, userId, mid) ==
  [hasMessage |-> TRUE, hasText |-> TRUE, text |-> t, hasChat |-> TRUE,
   chatId |-> chatId, chatType |-> chatType, userId |-> userId, message_id |-> mid]

\* the deliveries of the main specification: handler h gets message id 40 + h
CoreEvents(h) ==
  { Message(<<"a">>, -5, "group", 7, 40 + h),
    Message(<<" ", "a", " ">>, 1, "private", 7, 40 + h),
    Message(MentionTag \o <<" ", "a">>, -5, "group", 7, 40 + h) }

\* deliveries of every chat with an id in -MaxId..MaxId by every user with
\* an id in 0..MaxId; a chat with a negative id is a group, and the text
\* mentions the bot
KeyEvents(h) ==
  { Message(MentionTag \o <<"a">>, c, IF c < 0 THEN "group" ELSE "private", u, 40 + h) :
      c \in (0 - MaxId)..MaxId, u \in 0..MaxId }

\* deliveries without a message, without a text, with an empty text, and
\* with a text but no chat
OddEvents ==
  { NoMessage,
    [Message(<<>>, 1, "private", 7, 41) EXCEPT !.hasText = FALSE],
    Message(<<>>, 1, "private", 7, 41),
    [Message(<<"a">>, 0, "none", 7, 41) EXCEPT !.hasChat = FALSE] }

\* the texts of the text-normalisation specification
Pieces == { <<" ">>, <<"a">>, <<"@">>, MentionTag }

RECURSIVE TextsOf(_)
TextsOf(n) ==
  IF n = 0 THEN { <<>> }
  ELSE TextsOf(n - 1) \cup { p \o t : p \in Pieces, t \in TextsOf(n - 1) }

\* the example of the documentation
ExampleText ==
  MentionTag \o <<" "," ","w","h","a","t"," ","i","s"," ","t","h","e"," ",
                  "r","e","f","u","n","d"," ","p","o","l","i","c","y","?">>

\* the deliveries of the one-delivery specification: every text in a private
\* chat, a group and a supergroup, and the odd ones
OneEvents ==
  OddEvents \cup
  { Message(t, c[1], c[2], 7, 41) :
      t \in TextsOf(MaxPieces) \cup {ExampleText},
      c \in { <<1, "private">>, <<-5, "group">>, <<-6, "supergroup">> } }

\* `!message || !message.text` is false (index.js:117)
HasText(ev) == ev.hasMessage /\ ev.hasText /\ ev.text # <<>>

\* a plausible slip: every chat is answered
ShouldRespondAlways(isPrivate, t) == TRUE

\* the negation of `!isPrivate && !text.includes(mentionTag)` (index.js:130)
ShouldRespond(isPrivate, t) == isPrivate \/ Includes(t, MentionTag)

\* a plausible slip: the mention is removed in private chats too
NormalizeEverywhere(isPrivate, t) == Trim(Replace(t, MentionTag, <<>>))

\* index.js:135-137, applied to the trimmed text of index.js:124
Normalize(isPrivate, t) ==
  IF ~isPrivate THEN Trim(Replace(t, MentionTag, <<>>)) ELSE t

KeyOf(ev) == getThreadKey(ev.chatId, ev.userId)

(***************************************************************************)
(* The initial state: the process has booted and loaded the thread map.    *)
(***************************************************************************)
\* the key of a pair seen before the last restart, mapped to thread 1
KnownKey == getThreadKey(1, 7)

\* the required environment variables (index.js:21-27)
Required ==
  {"TELEGRAM_TOKEN", "OPENAI_API_KEY", "ASSISTANT_ID", "BOT_SECRET",
   "RENDER_EXTERNAL_URL"}

\* a plausible slip: two of the five are not checked
EnvCompleteLax(env) == {"TELEGRAM_TOKEN", "OPENAI_API_KEY", "ASSISTANT_ID"} \subseteq env

\* the condition of index.js:21-27 is false
EnvComplete(env) == Required \subseteq env

\* the process once it serves: every variable set, `threads` an object, the
\* file read, setWebhook requested, the port bound, the keep-alive timer set
Serving ==
  [pc |-> "serving", env |-> Required, kind |-> "object", read |-> TRUE,
   registered |-> TRUE, listening |-> TRUE, timer |-> TRUE]

\* no delivery has arrived
HandlersIdle ==
  /\ pc = [h \in Handlers |-> "idle"]
  /\ req = [h \in Handlers |-> NoMessage]
  /\ text = [h \in Handlers |-> <<>>]
  /\ threadId = [h \in Handlers |-> 0]
  /\ status = [h \in Handlers |-> "none"]
  /\ reply = [h \in Handlers |-> ""]
  /\ delivered = [h \in Handlers |-> <<>>]
  /\ acked = [h \in Handlers |-> FALSE]

\* either there was no file, or it held one entry, whose thread holds one of
\* `histories`
InitWith(histories) ==
  /\ proc = Serving
  /\ \/ /\ loaded = EmptyMap
        /\ file = [state |-> "absent", content |-> EmptyMap]
        /\ ctx = <<>>
     \/ /\ loaded = (KnownKey :> 1)
        /\ file = [state |-> "valid", content |-> loaded]
        /\ \E hist \in histories : ctx = <<hist>>
  /\ threads = loaded
  /\ HandlersIdle

Init == InitWith({ <<>> })

InitOne == InitWith(Histories)

\* the process starts: some of the required variables are set, and the file
\* is any of BootFiles
InitBoot ==
  /\ \E env \in SUBSET Required :
       proc = [pc |-> "start", env |-> env, kind |-> "object", read |-> FALSE,
               registered |-> FALSE, listening |-> FALSE, timer |-> FALSE]
  /\ file \in BootFiles(KnownKey :> 1)
  /\ ctx = IF file.content = EmptyMap THEN <<>> ELSE << <<>> >>
  /\ threads = EmptyMap
  /\ loaded = EmptyMap
  /\ HandlersIdle

(***************************************************************************)
(* Startup (index.js:11-50, 105-112, 157-169).                             *)
(***************************************************************************)
\* The module runs from its first line to the await of index.js:108: the
\* environment check, which exits the process, then the load of the thread
\* map and the setWebhook request.
Start ==
  /\ proc.pc = "start"
  /\ IF ~EnvComplete(proc.env)
       THEN /\ proc' = [proc EXCEPT !.pc = "exited"]
            /\ UNCHANGED <<threads, loaded>>
       ELSE /\ proc' = [proc EXCEPT !.pc = "register", !.kind = LoadKind(file),
                                     !.read = TRUE, !.registered = TRUE]
            /\ threads' = LoadThreads(file)
            /\ loaded' = LoadThreads(file)
  /\ UNCHANGED <<file, ctx, pc, req, text, threadId, status, reply, delivered, acked>>

\* fetch(setWebhook) returns: the routes are set, the port is bound and the
\* keep-alive timer is started (index.js:115-169)
RegisterOk ==
  /\ proc.pc = "register"
  /\ proc' = [proc EXCEPT !.pc = "serving", !.listening = TRUE, !.timer = TRUE]
  /\ UNCHANGED <<threads, file, loaded, ctx, pc, req, text, threadId, status,
                 reply, delivered, acked>>

\* fetch(setWebhook) throws: the top-level await rejects and the process ends
RegisterFail ==
  /\ proc.pc = "register"
  /\ proc' = [proc EXCEPT !.pc = "crashed"]
  /\ UNCHANGED <<threads, file, loaded, ctx, pc, req, text, threadId, status,
                 reply, delivered, acked>>

(***************************************************************************)
(* The webhook handler (index.js:115-150).                                 *)
(*                                                                         *)
(* A local variable that has left its scope is set back to its initial     *)
(* value: threadId and reply when the try block is left, all of them when  *)
(* the handler returns or throws.                                          *)
(***************************************************************************)
\* the handler makes external call `c` and awaits it
Call(h, c) == pc' = [pc EXCEPT ![h] = c]

\* the handler ends in state `p`: "done" (it returned) or "escaped" (it threw)
End(h, p) ==
  /\ pc' = [pc EXCEPT ![h] = p]
  /\ text' = [text EXCEPT ![h] = <<>>]
  /\ threadId' = [threadId EXCEPT ![h] = 0]
  /\ status' = [status EXCEPT ![h] = "none"]
  /\ reply' = [reply EXCEPT ![h] = ""]

\* res.sendStatus(200) and return (index.js:118, 131, 149)
Acknowledge(h) ==
  /\ acked' = [acked EXCEPT ![h] = TRUE]
  /\ End(h, "done")

\* an error thrown inside the try block, with run.status `s` in its message:
\* the catch block sends the fallback (index.js:144-146)
Catch(h, s) ==
  /\ Call(h, "fallback")
  /\ threadId' = [threadId EXCEPT ![h] = 0]
  /\ status' = [status EXCEPT ![h] = s]
  /\ reply' = [reply EXCEPT ![h] = ""]

\* a plausible slip: a delivery waits until no handler is suspended
DispatchesWhenFree(h) == \A g \in Handlers : pc[g] \in {"idle", "done", "escaped"}

\* app.post (index.js:115): the handler is invoked for a delivery whatever
\* the handlers of other deliveries are suspended on; h has had no delivery
Dispatches(h) == pc[h] = "idle"

\* The delivery arrives.  The handler runs from index.js:116 to its first
\* await: validation, classification, normalisation, and the lookup of
\* getOrCreateThread (index.js:61-65).
Receive(h, ev) ==
  /\ proc.listening
  /\ Dispatches(h)
  /\ req' = [req EXCEPT ![h] = ev]
  /\ UNCHANGED <<proc, threads, file, loaded, ctx, delivered>>
  /\ IF ~HasText(ev)
       THEN Acknowledge(h)
     ELSE IF ~ev.hasChat
       \* message.chat.id throws a TypeError outside the try block
       THEN End(h, "escaped") /\ UNCHANGED acked
     ELSE IF ~ShouldRespond(ev.chatType = "private", Trim(ev.text))
       THEN Acknowledge(h)
     ELSE /\ text' = [text EXCEPT ![h] = Normalize(ev.chatType = "private", Trim(ev.text))]
          /\ UNCHANGED acked
          /\ IF proc.kind = "null"
               \* threads[key] on null throws a TypeError inside the try block
               THEN Catch(h, "none")
             ELSE IF HasThread(threads, KeyOf(ev))
               THEN /\ threadId' = [threadId EXCEPT ![h] = threads[KeyOf(ev)]]
                    /\ Call(h, "append")
                    /\ UNCHANGED <<status, reply>>
               ELSE /\ Call(h, "create")
                    /\ UNCHANGED <<threadId, status, reply>>

\* openai.beta.threads.create() returns (index.js:67): the entry is stored
\* and the map is written; a failed write throws out of getOrCreateThread,
\* and so does the store when `threads` is a number (a module is strict code)
CreateOk(h) ==
  /\ pc[h] = "create"
  /\ ctx' = Append(ctx, <<>>)
  /\ IF proc.kind = "number"
       THEN /\ UNCHANGED <<threads, file>>
            /\ Catch(h, "none")
       ELSE /\ threads' = StoreThread(threads, KeyOf(req[h]), Len(ctx) + 1)
            /\ \/ /\ file' = Serialize(proc.kind, threads')
                  /\ threadId' = [threadId EXCEPT ![h] = Len(ctx) + 1]
                  /\ Call(h, "append")
                  /\ UNCHANGED <<status, reply>>
               \/ /\ file' \in FailedWrites(file)
                  /\ Catch(h, "none")
  /\ UNCHANGED <<proc, loaded, req, text, delivered, acked>>

\* openai.beta.threads.create() throws
CreateFail(h) ==
  /\ pc[h] = "create"
  /\ Catch(h, "none")
  /\ UNCHANGED <<proc, threads, file, loaded, ctx, req, text, delivered, acked>>

\* messages.create returns (index.js:78): the run is started
AppendOk(h) ==
  /\ pc[h] = "append"
  /\ ctx' = [ctx EXCEPT ![threadId[h]] = <<UserMessage(text[h])>> \o @]
  /\ Call(h, "run")
  /\ UNCHANGED <<proc, threads, file, loaded, req, text, threadId, status, reply,
                 delivered, acked>>

\* messages.create throws
AppendFail(h) ==
  /\ pc[h] = "append"
  /\ Catch(h, "none")
  /\ UNCHANGED <<proc, threads, file, loaded, ctx, req, text, delivered, acked>>

\* runs.createAndPoll returns with status "completed" (index.js:83-91)
RunCompleted(h, outputs) ==
  /\ pc[h] = "run"
  /\ \E out \in outputs :
       ctx' = [ctx EXCEPT ![threadId[h]] = out \o @]
  /\ status' = [status EXCEPT ![h] = "completed"]
  /\ Call(h, "list")
  /\ UNCHANGED <<proc, threads, file, loaded, req, text, threadId, reply, delivered, acked>>

\* a plausible slip: the status of the run is not looked at
RunStatusIgnored(h) ==
  /\ pc[h] = "run"
  /\ \E s \in FailedStatuses : status' = [status EXCEPT ![h] = s]
  /\ Call(h, "list")
  /\ UNCHANGED <<proc, threads, file, loaded, ctx, req, text, threadId, reply,
                 delivered, acked>>

\* runs.createAndPoll returns with another terminal status (index.js:87-89)
RunNotCompleted(h) ==
  /\ pc[h] = "run"
  /\ \E s \in FailedStatuses : Catch(h, s)
  /\ UNCHANGED <<proc, threads, file, loaded, ctx, req, text, delivered, acked>>

\* runs.createAndPoll throws
RunFail(h) ==
  /\ pc[h] = "run"
  /\ Catch(h, "none")
  /\ UNCHANGED <<proc, threads, file, loaded, ctx, req, text, delivered, acked>>

\* messages.list returns (index.js:91-102); the reply is sent (index.js:141)
ListOk(h) ==
  /\ pc[h] = "list"
  /\ reply' = [reply EXCEPT ![h] = SelectReply(ListMessages(ctx[threadId[h]], ListLimit))]
  /\ Call(h, "send")
  /\ UNCHANGED <<proc, threads, file, loaded, ctx, req, text, threadId, status,
                 delivered, acked>>

\* messages.list throws
ListFail(h) ==
  /\ pc[h] = "list"
  /\ Catch(h, status[h])
  /\ UNCHANGED <<proc, threads, file, loaded, ctx, req, text, delivered, acked>>

\* a plausible slip: the fallback is sent after the reply too, as if the
\* catch block were a finally block
SendThenFallback(h) ==
  /\ pc[h] = "send"
  /\ delivered' = [delivered EXCEPT ![h] =
       Append(@, [chat_id |-> req[h].chatId, text |-> reply[h],
                  reply_to_message_id |-> req[h].message_id])]
  /\ Catch(h, status[h])
  /\ UNCHANGED <<proc, threads, file, loaded, ctx, req, text, acked>>

\* bot.sendMessage of the reply returns (index.js:141-143, 149)
SendOk(h) ==
  /\ pc[h] = "send"
  /\ delivered' = [delivered EXCEPT ![h] =
       Append(@, [chat_id |-> req[h].chatId, text |-> reply[h],
                  reply_to_message_id |-> req[h].message_id])]
  /\ Acknowledge(h)
  /\ UNCHANGED <<proc, threads, file, loaded, ctx, req>>

\* bot.sendMessage of the reply throws
SendFail(h) ==
  /\ pc[h] = "send"
  /\ Catch(h, status[h])
  /\ UNCHANGED <<proc, threads, file, loaded, ctx, req, text, delivered, acked>>

\* bot.sendMessage of the fallback returns (index.js:146, 149)
FallbackOk(h) ==
  /\ pc[h] = "fallback"
  /\ delivered' = [delivered EXCEPT ![h] =
       Append(@, [chat_id |-> req[h].chatId, text |-> ErrorReply,
                  reply_to_message_id |-> 0])]
  /\ Acknowledge(h)
  /\ UNCHANGED <<proc, threads, file, loaded, ctx, req>>

\* bot.sendMessage of the fallback throws inside the catch block: the
\* handler's promise rejects and index.js:149 is not reached
FallbackFail(h) ==
  /\ pc[h] = "fallback"
  /\ End(h, "escaped")
  /\ UNCHANGED <<proc, threads, file, loaded, ctx, req, delivered, acked>>

\* an external call of handler h returns or throws; a completed run has
\* added one of `outputs` to the thread
Resume(h, outputs) ==
  \/ CreateOk(h)
  \/ CreateFail(h)
  \/ AppendOk(h)
  \/ AppendFail(h)
  \/ RunCompleted(h, outputs)
  \/ RunNotCompleted(h)
  \/ RunFail(h)
  \/ ListOk(h)
  \/ ListFail(h)
  \/ SendOk(h)
  \/ SendFail(h)
  \/ FallbackOk(h)
  \/ FallbackFail(h)

Next ==
  \E h \in Handlers :
    \/ \E ev \in CoreEvents(h) : Receive(h, ev)
    \/ Resume(h, CoreOutputs(h))

Spec == Init /\ [][Next]_vars

\* Deliveries handled one after the other: a delivery arrives only when no
\* handler is suspended.
Quiescent == \A h \in Handlers : pc[h] \in {"idle", "done", "escaped"}

NextSeq ==
  \E h \in Handlers :
    \/ \E ev \in CoreEvents(h) : Quiescent /\ Receive(h, ev)
    \/ Resume(h, CoreOutputs(h))

SpecSeq == Init /\ [][NextSeq]_vars

\* One delivery, of any kind, to a process whose known thread has a history.
NextOne ==
  \/ \E ev \in OneEvents : Receive(1, ev)
  \/ Resume(1, AllOutputs(1))

SpecOne == InitOne /\ [][NextOne]_vars

\* Two deliveries of any two pairs of ids, the second arriving once the
\* first holds its thread.
NextKey ==
  \/ \E ev \in KeyEvents(1) : Receive(1, ev)
  \/ CreateOk(1)
  \/ \E ev \in KeyEvents(2) : pc[1] = "append" /\ Receive(2, ev)

SpecKey == Init /\ [][NextKey]_vars

\* The process from its start, and the deliveries it then handles one after
\* the other.
NextBoot ==
  \/ Start
  \/ RegisterOk
  \/ RegisterFail
  \/ \E h \in Handlers :
       \/ \E ev \in CoreEvents(h) : Quiescent /\ Receive(h, ev)
       \/ Resume(h, CoreOutputs(h))

SpecBoot == InitBoot /\ [][NextBoot]_vars

(***************************************************************************)
(* Properties.                                                             *)
(***************************************************************************)
Ended(h) == pc[h] \in {"done", "escaped"}

\* handler h is suspended inside runAssistant with its thread id set
HoldsThread(h) == pc[h] \in {"append", "run", "list"} /\ threadId[h] # 0

\* the step is the return of threads.create() to handler h
CreateReturns(h) ==
  pc[h] = "create" /\ pc'[h] # "create" /\ Len(ctx') = Len(ctx) + 1

\* C1: every delivery is acknowledged with HTTP 200 whatever its handling
\* met; as the handler makes no call after it has ended, this is: a handler
\* that has ended has called res.sendStatus(200).
C1_EndedMeansAcknowledged == \A h \in Handlers : Ended(h) => acked[h]

\* C2: no exception propagates out of the webhook handler.
C2_NothingEscapes == \A h \in Handlers : pc[h] # "escaped"

\* C3: thread-map entries are write-once: no step removes a key of the map
\* or replaces its value, whatever the interleaving of the handlers.
C3_WriteOnce ==
  [][\A k \in DOMAIN threads : k \in DOMAIN threads' /\ threads'[k] = threads[k]]_vars

\* C4: first-contact race.  Whenever threads.create() returns to a handler,
\* the id is a fresh one, the handler stores it under its key whatever the
\* map holds there, so the map holds the id of the store that ran last, and
\* so does the file when the write succeeds; the handler goes on with the id
\* it created, and every handler keeps the id it has while it is inside
\* runAssistant.
C4_LastStoreWins ==
  [][\A h \in Handlers :
       /\ CreateReturns(h) =>
            /\ \A k \in DOMAIN threads : threads[k] # Len(ctx')
            /\ \A g \in Handlers : threadId[g] # Len(ctx')
            /\ threads'[KeyOf(req[h])] = Len(ctx')
            /\ \A k \in DOMAIN threads : k # KeyOf(req[h]) =>
                 k \in DOMAIN threads' /\ threads'[k] = threads[k]
            /\ pc'[h] \in {"append", "fallback"}
            /\ pc'[h] = "append" =>
                 /\ threadId'[h] = Len(ctx')
                 /\ file'.state = "valid"
                 /\ file'.content = threads'
       /\ (HoldsThread(h) /\ pc'[h] \in {"append", "run", "list", "send"}) =>
            threadId'[h] = threadId[h]
    ]_vars

\* two handlers of the same pair both created a thread: they hold distinct
\* ids, and the map and the file hold the id of the second to store
C4_Witness ==
  \E h, g \in Handlers :
    /\ h # g
    /\ HoldsThread(h) /\ HoldsThread(g)
    /\ KeyOf(req[h]) = KeyOf(req[g])
    /\ KeyOf(req[h]) \notin DOMAIN loaded
    /\ threadId[h] # threadId[g]
    /\ threads[KeyOf(req[h])] = threadId[g]
    /\ file.state = "valid" /\ file.content = threads

\* the persisted content is the in-memory map
InSync == file.content = threads /\ file.state \in {"absent", "valid"}

\* C5: getOrCreate called twice in sequence for one pair, with no failure.
\* Deliveries are handled one after the other (SpecSeq).  A call that finds
\* no entry invokes the factory; when that call returns, the map and (the
\* file being in sync before) the file have gained exactly the entry
\* key -> returned id.  No entry is changed afterwards.  A call that finds the
\* entry returns the id stored there, invokes no factory and writes nothing.
C5_Idempotent ==
  [][/\ \A k \in DOMAIN threads : k \in DOMAIN threads' /\ threads'[k] = threads[k]
     /\ \A h \in Handlers :
          /\ (pc[h] = "idle" /\ pc'[h] \notin {"idle", "done", "escaped"}) =>
               IF KeyOf(req'[h]) \in DOMAIN threads
                 THEN /\ pc'[h] = "append"
                      /\ threadId'[h] = threads[KeyOf(req'[h])]
                      /\ threads' = threads /\ file' = file /\ ctx' = ctx
                 ELSE /\ pc'[h] = "create"
                      /\ threads' = threads /\ file' = file /\ ctx' = ctx
          /\ (pc[h] = "create" /\ pc'[h] = "append") =>
               /\ Len(ctx') = Len(ctx) + 1
               /\ KeyOf(req[h]) \notin DOMAIN threads
               /\ DOMAIN threads' = DOMAIN threads \cup {KeyOf(req[h])}
               /\ threads'[KeyOf(req[h])] = threadId'[h]
               /\ InSync => /\ file'.state = "valid"
                            /\ DOMAIN file'.content = DOMAIN file.content \cup {KeyOf(req[h])}
                            /\ Cardinality(DOMAIN file'.content)
                                 = Cardinality(DOMAIN file.content) + 1
                            /\ \A k \in DOMAIN file.content :
                                 file'.content[k] = file.content[k]
                            /\ file'.content[KeyOf(req[h])] = threadId'[h]
    ]_vars

\* the first delivery of a new pair created the thread and relayed a reply;
\* the second one got the same id without another thread being created
C5_Witness ==
  \E h, g \in Handlers :
    /\ h # g
    /\ pc[h] = "done" /\ delivered[h] # <<>> /\ delivered[h][1].text # ErrorReply
    /\ HasText(req[h]) /\ KeyOf(req[h]) \notin DOMAIN loaded
    /\ pc[g] = "append" /\ KeyOf(req[g]) = KeyOf(req[h])
    /\ threadId[g] = threads[KeyOf(req[h])]
    /\ Len(ctx) = Cardinality(DOMAIN loaded) + 1
    /\ file.state = "valid" /\ file.content = threads

(***************************************************************************)
(* What the documentation says of the texts, stated on positions.          *)
(***************************************************************************)
\* t occurs in s at position i
OccursAt(s, t, i) ==
  /\ i >= 1 /\ i + Len(t) - 1 <= Len(s)
  /\ \A k \in 1..Len(t) : s[i + k - 1] = t[k]

Mentions(s) == \E i \in 1..Len(s) : OccursAt(s, MentionTag, i)

\* t is s without its leading and trailing white space
IsStripped(t, s) ==
  \E i \in 1..(Len(s) + 1), j \in 0..Len(s) :
    /\ i <= j + 1
    /\ Len(t) = j - i + 1
    /\ \A k \in 1..Len(t) : t[k] = s[i + k - 1]
    /\ \A k \in 1..(i - 1) : s[k] \in WhiteSpace
    /\ \A k \in (j + 1)..Len(s) : s[k] \in WhiteSpace
    /\ t # <<>> => t[1] \notin WhiteSpace /\ t[Len(t)] \notin WhiteSpace

\* t is s with the first occurrence of the mention tag cut out, then
\* stripped of its leading and trailing white space
IsFirstMentionRemoved(t, s) ==
  \E i \in 1..Len(s) :
    /\ OccursAt(s, MentionTag, i)
    /\ \A j \in 1..(i - 1) : ~OccursAt(s, MentionTag, j)
    /\ IsStripped(t, [k \in 1..(Len(s) - Len(MentionTag)) |->
                        IF k < i THEN s[k] ELSE s[k + Len(MentionTag)]])

\* the delivery is one the handler is to ignore
IsIgnored(ev) ==
  \/ ~ev.hasMessage
  \/ ~ev.hasText
  \/ ev.text = <<>>
  \/ ev.hasChat /\ ev.chatType # "private" /\ ~Mentions(ev.text)

\* the step is the arrival of a delivery at handler h
Arrives(h) == pc[h] = "idle" /\ pc'[h] # "idle"

\* the step is the return of messages.create to handler h
AppendReturns(h) == pc[h] = "append" /\ pc'[h] = "run"

\* the text of the user message the step has added to the handler's thread
Forwarded(h) == ctx'[threadId[h]][1].content[1].value

IsUserMessageAdded(h) ==
  /\ Len(ctx'[threadId[h]]) = Len(ctx[threadId[h]]) + 1
  /\ ctx'[threadId[h]][1].role = "user"
  /\ Len(ctx'[threadId[h]][1].content) = 1
  /\ ctx'[threadId[h]][1].content[1].type = "text"

\* C6: an ignored delivery (no message, no text, or a text without the
\* mention tag in a chat that is not private) is acknowledged at once and
\* changes nothing else: no message is sent to the chat, the assistant
\* backend is not called, the map and the file are as before.
C6_IgnoredHasNoEffect ==
  [][\A h \in Handlers :
       (Arrives(h) /\ IsIgnored(req'[h])) =>
          /\ pc'[h] = "done"
          /\ acked'[h]
          /\ delivered' = delivered
          /\ ctx' = ctx
          /\ threads' = threads
          /\ file' = file
    ]_vars

\* a group message without the mention tag was acknowledged, nothing sent
C6_Witness ==
  \E h \in Handlers :
    /\ pc[h] = "done" /\ acked[h] /\ delivered[h] = <<>>
    /\ req[h].hasChat /\ req[h].chatType = "group"
    /\ req[h].text # <<>> /\ ~Mentions(req[h].text)
    /\ threads = loaded

\* C7: when the run ends with a status other than "completed", no message
\* list is fetched, and the handler ends with exactly the fallback text
\* delivered to the chat and the delivery acknowledged.
C7_RunFailedFallback ==
  [][\A h \in Handlers :
       /\ (pc[h] = "run" /\ status'[h] \in FailedStatuses) => pc'[h] = "fallback"
       /\ (pc[h] = "fallback" /\ status[h] \in FailedStatuses /\ pc'[h] # "fallback") =>
            /\ acked'[h]
            /\ Len(delivered'[h]) = 1
            /\ delivered'[h][1].text = "Error processing your request."
            /\ delivered'[h][1].chat_id = req[h].chatId
    ]_vars

\* C8: in a private chat the text added to the thread is message.text itself.
C8_PrivateVerbatim ==
  [][\A h \in Handlers :
       (AppendReturns(h) /\ req[h].chatType = "private") =>
          IsUserMessageAdded(h) /\ Forwarded(h) = req[h].text
    ]_vars

\* C8, amended: in a private chat every delivery with a non-empty text is
\* handled, and the text added to the thread is message.text without its
\* leading and trailing white space, the mention tag left in place.
C8_PrivateTrimmed ==
  [][\A h \in Handlers :
       /\ (Arrives(h) /\ HasText(req'[h]) /\ req'[h].hasChat
             /\ req'[h].chatType = "private") =>
            pc'[h] \in {"create", "append"}
       /\ (AppendReturns(h) /\ req[h].chatType = "private") =>
            IsUserMessageAdded(h) /\ IsStripped(Forwarded(h), req[h].text)
    ]_vars

\* a private text with white space around it and the mention tag in it was
\* forwarded without the white space and with the tag
C8_Witness ==
  \E h \in Handlers :
    /\ pc[h] = "run"
    /\ req[h].chatType = "private"
    /\ Mentions(req[h].text)
    /\ req[h].text[1] \in WhiteSpace
    /\ ctx[threadId[h]][1] = UserMessage(text[h])
    /\ Mentions(text[h])
    /\ text[h] # req[h].text

ExampleForwarded ==
  <<"w","h","a","t"," ","i","s"," ","t","h","e"," ",
    "r","e","f","u","n","d"," ","p","o","l","i","c","y","?">>

\* C9: in a chat that is not private, every delivery whose text contains the
\* mention tag is handled, and the text added to the thread is the original
\* text with the first occurrence of the tag removed and the surrounding
\* white space trimmed; the documentation's example gives
\* "what is the refund policy?".
C9_FirstMentionRemoved ==
  [][\A h \in Handlers :
       /\ (Arrives(h) /\ HasText(req'[h]) /\ req'[h].hasChat
             /\ req'[h].chatType # "private" /\ Mentions(req'[h].text)) =>
            pc'[h] \in {"create", "append"}
       /\ (AppendReturns(h) /\ req[h].chatType # "private") =>
            /\ IsUserMessageAdded(h)
            /\ IsFirstMentionRemoved(Forwarded(h), req[h].text)
            /\ req[h].text = ExampleText => Forwarded(h) = ExampleForwarded
    ]_vars

\* a group text with two mention tags was forwarded with the second one
C9_Witness ==
  \E h \in Handlers :
    /\ pc[h] = "run"
    /\ req[h].chatType = "group"
    /\ \E i, j \in 1..Len(req[h].text) :
         i < j /\ OccursAt(req[h].text, MentionTag, i) /\ OccursAt(req[h].text, MentionTag, j)
    /\ ctx[threadId[h]][1] = UserMessage(text[h])
    /\ Mentions(text[h])
    /\ Len(text[h]) < Len(req[h].text) - Len(MentionTag)

\* the window messages.list gives handler h: the newest five messages
WindowOf(h) ==
  [i \in 1..(IF Len(ctx[threadId[h]]) < 5 THEN Len(ctx[threadId[h]]) ELSE 5) |->
     ctx[threadId[h]][i]]

AssistantAt(w) == { i \in 1..Len(w) : w[i].role = "assistant" }

FirstAssistant(w) == CHOOSE i \in AssistantAt(w) : \A j \in AssistantAt(w) : i <= j

HasPrimaryText(m) ==
  /\ m.content # <<>>
  /\ m.content[1].type = "text"
  /\ m.content[1].value # ""

\* C10: when the message list has been fetched, the reply is never empty:
\* it is "No response generated." when the window of five holds no message
\* of the assistant, or when the primary text of the first such message is
\* empty or not a text, and that primary text otherwise.
C10_ReplyNeverEmpty ==
  [][\A h \in Handlers :
       (pc[h] = "list" /\ pc'[h] = "send") =>
          /\ reply'[h] # ""
          /\ IF AssistantAt(WindowOf(h)) = {}
               THEN reply'[h] = "No response generated."
             ELSE IF HasPrimaryText(WindowOf(h)[FirstAssistant(WindowOf(h))])
               THEN reply'[h] = WindowOf(h)[FirstAssistant(WindowOf(h))].content[1].value
             ELSE reply'[h] = "No response generated."
    ]_vars

\* the thread holds an answer of the assistant, but not among its newest
\* five messages: the reply is the fallback
C10_Witness ==
  \E h \in Handlers :
    /\ pc[h] = "send"
    /\ reply[h] = NoResponse
    /\ AssistantAt(WindowOf(h)) = {}
    /\ AssistantAt(ctx[threadId[h]]) # {}

\* the pair of ids of a delivery
PairOf(ev) == <<ev.chatId, ev.userId>>

\* C13: the key "<chatId>:<userId>" is injective and deterministic over
\* chat ids -MaxId..MaxId and user ids 0..MaxId: two deliveries derive the same key exactly when
\* their pairs of ids are equal; hence a second delivery finds the thread
\* of the first exactly when it is of the same pair.
C13_KeyInjective ==
  \A g, h \in Handlers :
    (req[g].hasChat /\ req[h].hasChat) =>
       /\ (KeyOf(req[g]) = KeyOf(req[h])) <=> (PairOf(req[g]) = PairOf(req[h]))
       /\ (pc[g] = "append" /\ pc[h] \in {"append", "create"}) =>
             ((threadId[h] = threadId[g]) <=> (PairOf(req[g]) = PairOf(req[h])))

\* two pairs with the same digits in the same order, one of them of a
\* group: the second delivery does not find the thread of the first
C13_Witness ==
  /\ PairOf(req[1]) = <<1, 11>>
  /\ PairOf(req[2]) = <<0 - 11, 1>>
  /\ pc[1] = "append"
  /\ pc[2] = "create"

(***************************************************************************)
(* Startup: the load of the thread map and the environment check.          *)
(***************************************************************************)
\* the step is the load of the thread map (index.js:44-50)
Loads == proc.pc = "start" /\ proc'.pc = "register"

\* C11: the load never fails startup and yields a usable mapping.  When the
\* file is absent, unreadable or malformed, including content that parses
\* but is no object, the map after the load is empty; and getOrCreate on the
\* loaded map works normally: the lookup of an arriving delivery raises no
\* error, and when threads.create() has returned and the write succeeded,
\* the map holds the new entry and the file holds the map.
C11_LoadedMapUsable ==
  [][/\ Loads => (proc'.read /\ (file.state # "valid" => threads' = EmptyMap))
     /\ \A h \in Handlers :
          /\ Arrives(h) => pc'[h] # "fallback"
          /\ CreateReturns(h) =>
               /\ HasThread(threads', KeyOf(req[h]))
               /\ pc'[h] = "append" =>
                    /\ threads'[KeyOf(req[h])] = threadId'[h]
                    /\ file' = [state |-> "valid", content |-> threads']
    ]_vars

\* C12: with a required value absent the process exits at the check: it
\* never loads the thread map, requests setWebhook, binds the port or
\* starts the keep-alive timer, and it handles no delivery.
C12_MissingValueExitsFirst ==
  (Required \ proc.env # {}) =>
     /\ proc.pc \in {"start", "exited"}
     /\ ~proc.read /\ ~proc.registered /\ ~proc.listening /\ ~proc.timer
     /\ threads = EmptyMap
     /\ \A h \in Handlers : pc[h] = "idle"

\* exactly one value was absent, and the file held an entry to load
C12_Witness ==
  /\ proc.pc = "exited"
  /\ Cardinality(Required \ proc.env) = 1
  /\ file = [state |-> "valid", content |-> KnownKey :> 1]
  /\ threads = EmptyMap

(***************************************************************************)
(* Concurrent deliveries.                                                  *)
(***************************************************************************)
\* C14: write-through consistency.  Every state of the model is one where
\* the handlers are suspended at an await or have ended; in each of them
\* the file holds exactly the entries of the map, whatever the outcome of
\* the writes: an entry whose write failed is not kept in the map.
C14_WriteThrough ==
  /\ file.state \in {"absent", "valid"}
  /\ DOMAIN file.content = DOMAIN threads
  /\ \A key \in DOMAIN threads : file.content[key] = threads[key]

\* C15: a stalled request does not block others.  Whatever the other
\* handlers are suspended at, and however long, a delivery can arrive and
\* each of its external calls can return with success and take the handler
\* to the next one, up to the reply being sent and the delivery being
\* acknowledged.
C15_StalledBlocksNobody ==
  \A h \in Handlers :
    /\ pc[h] = "idle" => \A ev \in CoreEvents(h) : ENABLED Receive(h, ev)
    /\ pc[h] = "create" => ENABLED (CreateOk(h) /\ pc'[h] = "append")
    /\ pc[h] = "append" => ENABLED (AppendOk(h) /\ pc'[h] = "run")
    /\ pc[h] = "run" => ENABLED (RunCompleted(h, CoreOutputs(h)) /\ pc'[h] = "list")
    /\ pc[h] = "list" => ENABLED (ListOk(h) /\ pc'[h] = "send")
    /\ pc[h] = "send" =>
         ENABLED (SendOk(h) /\ pc'[h] = "done" /\ acked'[h] /\ Len(delivered'[h]) = 1)

\* handler 1 is still waiting for its run, and the delivery of another pair
\* has been answered and acknowledged
C15_Witness ==
  /\ pc[1] = "run"
  /\ PairOf(req[2]) # PairOf(req[1])
  /\ pc[2] = "done"
  /\ acked[2]
  /\ delivered[2] = << [chat_id |-> req[2].chatId, text |-> AnswerOf(2),
                        reply_to_message_id |-> req[2].message_id] >>

\* C16: the reply relayed for a delivery is the answer of the run that
\* its own handler started: no handler sends, as the threaded reply to its
\* message, the answer that the run of another handler produced.
C16_OwnAnswerRelayed ==
  \A h \in Handlers : \A i \in 1..Len(delivered[h]) :
    delivered[h][i].reply_to_message_id = req[h].message_id =>
      \A g \in Handlers \ {h} : delivered[h][i].text # AnswerOf(g)

\* the one message that handler h has delivered is the reply to its
\* originating message
IsReplyOf(h, m) ==
  /\ m.chat_id = req[h].chatId
  /\ m.reply_to_message_id = req[h].message_id
  /\ m.text # ErrorReply

\* ... is the fallback text
IsFallbackOf(h, m) ==
  m = [chat_id |-> req[h].chatId, text |-> ErrorReply, reply_to_message_id |-> 0]

\* C17: at most one message is delivered per handled delivery: the reply,
\* threaded to the originating message, or the fallback text, never both;
\* exactly one when the handler has returned, that is when its last send
\* did not fail, and none for an ignored delivery.  The catch block is
\* entered only from a call of the try block, with nothing delivered, and
\* the fallback text is delivered only from the catch block.
C17_AtMostOneDelivered ==
  /\ [](\A h \in Handlers :
          /\ Len(delivered[h]) <= 1
          /\ \A i \in 1..Len(delivered[h]) :
               IsReplyOf(h, delivered[h][i]) \/ IsFallbackOf(h, delivered[h][i])
          /\ pc[h] = "done" => (Len(delivered[h]) = 1 <=> ~IsIgnored(req[h]))
          /\ pc[h] # "done" => delivered[h] = <<>>)
  /\ [][\A h \in Handlers :
          /\ (pc'[h] = "fallback" /\ pc[h] # "fallback") =>
               /\ pc[h] \in {"idle", "create", "append", "run", "list", "send"}
               /\ delivered'[h] = <<>>
          /\ delivered'[h] # delivered[h] =>
               /\ pc[h] \in {"send", "fallback"}
               /\ IsFallbackOf(h, delivered'[h][1]) <=> pc[h] = "fallback"
      ]_vars

\* one handler has delivered the reply and another the fallback text
C17_Witness ==
  \E g, h \in Handlers :
    /\ pc[g] = "done" /\ Len(delivered[g]) = 1 /\ IsReplyOf(g, delivered[g][1])
    /\ pc[h] = "done" /\ Len(delivered[h]) = 1 /\ IsFallbackOf(h, delivered[h][1])

\* the calls that can follow the call (or end) `p` of a handler
FollowersOf(p) ==
  CASE p = "idle" -> {"create", "append", "fallback", "done", "escaped"}
    [] p = "create" -> {"append", "fallback"}
    [] p = "append" -> {"run", "fallback"}
    [] p = "run" -> {"list", "fallback"}
    [] p = "list" -> {"send", "fallback"}
    [] p = "send" -> {"done", "fallback"}
    [] p = "fallback" -> {"done", "escaped"}
    [] OTHER -> {}

\* the number of messages in the threads of the assistant
RECURSIVE MessagesIn(_)
MessagesIn(c) == IF c = <<>> THEN 0 ELSE Len(Head(c)) + MessagesIn(Tail(c))

\* C18: the assistant calls of one delivery run in order, each at most
\* once, with no retry: the thread is resolved before the message is
\* appended, the append returns before the run is started, the run ends
\* before the messages are listed, and they are listed only when the
\* status of the run is "completed"; a step that fails leads to the catch
\* block and to no later or repeated step.  A thread is created only by a
\* returning threads.create(), and one user message is added only by a
\* returning messages.create().
C18_CallsInOrder ==
  [][\A h \in Handlers :
       /\ pc'[h] # pc[h] => pc'[h] \in FollowersOf(pc[h])
       /\ pc'[h] = "append" => threadId'[h] \in 1..Len(ctx')
       /\ (pc[h] = "run" /\ pc'[h] # "run") =>
             (pc'[h] = "list" <=> status'[h] = "completed")
       /\ pc'[h] \in {"list", "send"} => status'[h] = "completed"
       /\ (pc[h] = "create" /\ pc'[h] = "append") =>
             (Len(ctx') = Len(ctx) + 1 /\ threadId'[h] = Len(ctx'))
       /\ Len(ctx') # Len(ctx) =>
             \E g \in Handlers : pc[g] = "create" /\ pc'[g] \in {"append", "fallback"}
       /\ (pc[h] = "append" /\ pc'[h] # "append") =>
             MessagesIn(ctx') = MessagesIn(ctx) + (IF pc'[h] = "run" THEN 1 ELSE 0)
       /\ (pc[h] \notin {"append", "run", "create"} /\ pc'[h] # pc[h]) => ctx' = ctx
    ]_vars

\* one run has completed and its messages are being listed; another has
\* ended with a status other than "completed" and its handler is in the
\* catch block
C18_Witness ==
  \E g, h \in Handlers :
    /\ pc[g] = "list" /\ status[g] = "completed"
    /\ pc[h] = "fallback" /\ status[h] \in FailedStatuses

====
